---- MODULE Spec2Model ----
(***************************************************************************)
(* FHAT browser client: the upload -> analyze -> persist -> render         *)
(* workflow of UploadPage / ResultsPage, and the score -> colour / label   *)
(* classification of the gauge and card components.                        *)
(***************************************************************************)
EXTENDS Integers, Sequences, FiniteSets, TLC

(***************************************************************************)
(* Bounds of the model.                                                    *)
(***************************************************************************)
\* handleUpload invocations that pass the file check, per behaviour
MaxRuns == 2
\* clicks on the "Analyze Business" button, per behaviour
MaxClicks == 3
\* page loads (address bar / reload), per behaviour
MaxLoads == 2
\* finite scores rendered by the gauges are 0 .. MaxScore (and 10000)
MaxScore == 860
\* entries of a warnings / fraud list handed to a panel
MaxAlerts == 2

(***************************************************************************)
(* JavaScript values, as far as the client handles them.                   *)
(***************************************************************************)
JUndef == [t |-> "undefined"]
JNull == [t |-> "null"]
JNum(n) == [t |-> "number", k |-> "fin", n |-> n]
JNaN == [t |-> "number", k |-> "nan", n |-> 0]
JPosInf == [t |-> "number", k |-> "+inf", n |-> 0]
JNegInf == [t |-> "number", k |-> "-inf", n |-> 0]
JStr(s) == [t |-> "string", s |-> s]
JArr(a) == [t |-> "array", a |-> a]
JObj(f) == [t |-> "object", f |-> f]

\* v == null || v == undefined : what `??` and `?.` test
Nullish(v) == v.t \in {"undefined", "null"}

\* ToBoolean(v) : what `if (v)`, `!v` and `||` test
Truthy(v) ==
  CASE v.t \in {"undefined", "null"} -> FALSE
    [] v.t = "string" -> v.s # ""
    [] v.t = "number" -> ~(v.k = "nan" \/ (v.k = "fin" /\ v.n = 0))
    [] OTHER -> TRUE

\* a ?? b
Coalesce(a, b) == IF Nullish(a) THEN b ELSE a

\* a || b
OrElse(a, b) == IF Truthy(a) THEN a ELSE b

\* v?.key : undefined for null / undefined, for a primitive and for a missing key
Get(v, key) ==
  IF v.t = "object" /\ key \in DOMAIN v.f THEN v.f[key] ELSE JUndef

\* numeric strings the model uses, with the number each one reads as
NumericStrings == [s \in {"800"} |-> 800]

\* ToNumber(v), the coercion `>=` applies to a non-number operand
ToNumber(v) ==
  CASE v.t = "number" -> v
    [] v.t = "undefined" -> JNaN
    [] v.t = "null" -> JNum(0)
    [] v.t = "string" ->
         IF v.s = "" THEN JNum(0)
         ELSE IF v.s \in DOMAIN NumericStrings THEN JNum(NumericStrings[v.s])
         ELSE JNaN
    [] v.t = "array" -> IF v.a = <<>> THEN JNum(0) ELSE JNaN
    [] OTHER -> JNaN

\* score >= t, for a number literal t: false whenever ToNumber(score) is NaN
GE(v, t) ==
  LET x == ToNumber(v)
  IN  \/ x.k = "+inf"
      \/ x.k = "fin" /\ x.n >= t

(***************************************************************************)
(* JSON.stringify / JSON.parse, and the localStorage slot "analysis".      *)
(***************************************************************************)
\* the value JSON text can carry for v: object members whose value is
\* undefined are dropped, NaN and the infinities become null
RECURSIVE ToJSON(_)
ToJSON(v) ==
  CASE v.t = "number" -> IF v.k = "fin" THEN v ELSE JNull
    [] v.t = "array" -> JArr([i \in DOMAIN v.a |->
                               IF v.a[i].t = "undefined" THEN JNull ELSE ToJSON(v.a[i])])
    [] v.t = "object" ->
         JObj([key \in {x \in DOMAIN v.f : v.f[x].t # "undefined"} |-> ToJSON(v.f[key])])
    [] OTHER -> v

\* JSON.stringify(v): a JSON text, or undefined for undefined
JSONstringify(v) ==
  IF v.t = "undefined" THEN JUndef ELSE [t |-> "text", json |-> ToJSON(v)]

\* localStorage.setItem(key, x) stores String(x)
ToStorageString(x) ==
  IF x.t = "undefined" THEN [t |-> "text", json |-> JUndef] ELSE x

\* the slot before any setItem: getItem returns null
Absent == JNull

\* JSON.parse(text): the value, or a SyntaxError for the text "undefined";
\* a null argument is read as the text "null"
JSONparse(text) ==
  IF text.t = "null" THEN JNull
  ELSE IF text.json.t = "undefined" THEN [t |-> "throw"] ELSE text.json

(***************************************************************************)
(* What the analysis service can answer.                                   *)
(***************************************************************************)
\* bodies of a 2xx answer of POST /analyze/{businessId}, as axios hands them
\* over in res.data
PayloadFull ==
  JObj([risk |-> JObj([score |-> JNum(820), category |-> JStr("Low Risk")]),
        survival_score |-> JNum(72),
        warnings |-> JArr(<<>>)])
PayloadOther ==
  JObj([risk |-> JObj([score |-> JNum(540), category |-> JStr("High Risk")]),
        warnings |-> JArr(<<JObj([type |-> JStr("Liquidity"),
                                  severity |-> JStr("Critical")])>>)])
PayloadEmpty == JObj([key \in {} |-> JNull])
PayloadBadTypes ==
  JObj([risk |-> JObj([score |-> JStr("abc")]),
        survival_score |-> JNull,
        warnings |-> JStr("none")])
PayloadObjectScore ==
  JObj([risk |-> JObj([score |-> JObj([value |-> JNum(700)])])])
Payloads ==
  {PayloadFull, PayloadOther, PayloadEmpty, PayloadBadTypes, PayloadObjectScore,
   JNull, JStr("")}

\* the error a rejected axios call throws: err.response.data is the body of a
\* non-2xx answer, err.message is axios's own text
AxiosError(data, message) ==
  JObj([response |-> JObj([data |-> data]), message |-> JStr(message)])
StatusText == "Request failed with status code 500"
Errors ==
  {AxiosError(JObj([detail |-> JStr("model unavailable")]), StatusText),
   AxiosError(JObj([message |-> JStr("invalid file")]), StatusText),
   AxiosError(JObj([detail |-> JStr(""), message |-> JStr("quota exceeded")]), StatusText),
   AxiosError(JObj([key \in {} |-> JNull]), StatusText),
   JObj([message |-> JStr("Network Error")]),
   JObj([message |-> JStr("")])}

(***************************************************************************)
(* State.                                                                  *)
(***************************************************************************)
VARIABLES
  location,    \* the route shown: "/" (UploadPage) or "/results" (ResultsPage)
  file,        \* UploadPage: useState(null), set by the file input
  loading,     \* UploadPage: useState(false)
  runs,        \* the handleUpload invocations that passed the file check
  alertMsg,    \* the argument of the latest alert(), undefined before any
  storage,     \* localStorage slot "analysis"
  writes,      \* number of localStorage.setItem calls so far
  analysis,    \* ResultsPage: useState(null)
  resultsPc,   \* ResultsPage: "unmounted", "effect" (useEffect pending), "settled", "crashed"
  clicks,      \* number of clicks on the button so far
  lastClick,   \* what the latest click did: "none", "disabled", "noFile", "started"
  loads,       \* number of page loads so far
  redirects,   \* number of navigate("/") calls of ResultsPage so far
  panel        \* the gauge / card rendered, its props before that, or kind "none"

wfVars ==
  <<location, file, loading, runs, alertMsg, storage, writes, analysis,
    resultsPc, clicks, lastClick, loads, redirects>>
vars == <<wfVars, panel>>

TheFile == [t |-> "file", name |-> "ledger.csv"]
\* e.target.files[0]: a file, or undefined when the chooser is dismissed
FileChoices == {TheFile, JUndef}

InFlight == {i \in DOMAIN runs : runs[i].stage \in {"uploading", "analyzing"}}

NoPanel == [kind |-> "none"]

Init ==
  /\ location = "/"
  /\ file = JNull
  /\ loading = FALSE
  /\ runs = <<>>
  /\ alertMsg = JUndef
  /\ storage = Absent
  /\ writes = 0
  /\ analysis = JNull
  /\ resultsPc = "unmounted"
  /\ clicks = 0
  /\ lastClick = "none"
  /\ loads = 0
  /\ redirects = 0
  /\ panel = NoPanel

(***************************************************************************)
(* UploadPage.                                                             *)
(***************************************************************************)
\* onChange={(e) => setFile(e.target.files[0])}
SelectFile ==
  /\ location = "/"
  /\ \E f \in FileChoices \ {file} : file' = f
  /\ UNCHANGED <<location, loading, runs, alertMsg, storage, writes, analysis,
                 resultsPc, clicks, lastClick, loads, redirects, panel>>

\* variant: the button is never disabled
ButtonDisabled_Never == FALSE

\* <button onClick={handleUpload} disabled={loading}>
ButtonDisabled == loading

\* variant: only null counts as "no file"
FileMissing_NullOnly(f) == f.t = "null"

\* if (!file) { alert("Please select a file."); return; }
FileMissing(f) == ~Truthy(f)

\* the run handleUpload starts: setLoading(true), then uploadFile() is called
StartRun(f) ==
  [stage |-> "uploading", file |-> f, upload |-> "pending", analyze |-> "none",
   data |-> JUndef, error |-> JUndef]

\* a click on the button: nothing when it is disabled, else handleUpload up to
\* its first await
ClickAnalyze ==
  /\ location = "/"
  /\ clicks < MaxClicks
  /\ clicks' = clicks + 1
  /\ IF ButtonDisabled
       THEN /\ lastClick' = "disabled"
            /\ UNCHANGED <<loading, runs, alertMsg>>
       ELSE IF FileMissing(file)
         THEN /\ lastClick' = "noFile"
              /\ alertMsg' = JStr("Please select a file.")
              /\ UNCHANGED <<loading, runs>>
         ELSE /\ Len(runs) < MaxRuns
              /\ lastClick' = "started"
              /\ loading' = TRUE
              /\ runs' = Append(runs, StartRun(file))
              /\ UNCHANGED alertMsg
  /\ UNCHANGED <<location, file, storage, writes, analysis, resultsPc, loads, redirects, panel>>

\* variant: the error's own text is preferred to the server's
ErrorDetail_OwnTextFirst(err) ==
  LET data == Get(Get(err, "response"), "data")
  IN  OrElse(OrElse(OrElse(Get(err, "message"), Get(data, "detail")),
                    Get(data, "message")),
             JStr("Upload or analysis failed."))

\* the catch block's message
ErrorDetail(err) ==
  LET data == Get(Get(err, "response"), "data")
  IN  OrElse(OrElse(OrElse(Get(data, "detail"), Get(data, "message")),
                    Get(err, "message")),
             JStr("Upload or analysis failed."))

\* await uploadFile(...) resolved: runAnalysis() is called next
AfterUploadOk(r) ==
  [r EXCEPT !.stage = "analyzing", !.upload = "ok", !.analyze = "pending"]

\* variant: the rejection is swallowed and runAnalysis() is called all the same
AfterUploadFailed_StillAnalyzes(r, err) ==
  [r EXCEPT !.stage = "analyzing", !.upload = "failed", !.analyze = "pending",
            !.error = err]

\* await uploadFile(...) rejected with err: control goes to the catch block
AfterUploadFailed(r, err) ==
  [r EXCEPT !.stage = "failed", !.upload = "failed", !.error = err]

\* await runAnalysis(...) resolved with res: the try block runs to its end
AfterAnalyzeOk(r, data) ==
  [r EXCEPT !.stage = "done", !.analyze = "ok", !.data = data]

\* await runAnalysis(...) rejected with err: control goes to the catch block
AfterAnalyzeFailed(r, err) ==
  [r EXCEPT !.stage = "failed", !.analyze = "failed", !.error = err]

\* the upload call of run i resolves
UploadResolves(i) ==
  /\ runs[i].stage = "uploading"
  /\ runs' = [runs EXCEPT ![i] = AfterUploadOk(@)]
  /\ UNCHANGED <<location, file, loading, alertMsg, storage, writes, analysis,
                 resultsPc, clicks, lastClick, loads, redirects, panel>>

\* the upload call of run i rejects: catch, alert(detail), setLoading(false)
UploadRejects(i) ==
  /\ runs[i].stage = "uploading"
  /\ \E err \in Errors :
       /\ runs' = [runs EXCEPT ![i] = AfterUploadFailed(@, err)]
       /\ alertMsg' = ErrorDetail(err)
  /\ loading' = FALSE
  /\ UNCHANGED <<location, file, storage, writes, analysis, resultsPc, clicks,
                 lastClick, loads, redirects, panel>>

\* variant: the slot is emptied when the answer carries no object
Commit_DropsEmpty(data) ==
  IF data.t = "object" THEN ToStorageString(JSONstringify(data)) ELSE Absent

\* variant: the whole response is stored, not its body
Commit_WholeResponse(data) ==
  ToStorageString(JSONstringify(JObj([data |-> data, status |-> JNum(200)])))

\* localStorage.setItem("analysis", JSON.stringify(res.data))
Commit(data) == ToStorageString(JSONstringify(data))

\* the analyze call of run i resolves: commit, navigate("/results"), setLoading(false)
AnalyzeResolves(i) ==
  /\ runs[i].stage = "analyzing"
  /\ \E data \in Payloads :
       /\ runs' = [runs EXCEPT ![i] = AfterAnalyzeOk(@, data)]
       /\ storage' = Commit(data)
  /\ writes' = writes + 1
  /\ location' = "/results"
  /\ analysis' = JNull
  /\ resultsPc' = "effect"
  /\ file' = JNull
  /\ loading' = FALSE
  /\ UNCHANGED <<alertMsg, clicks, lastClick, loads, redirects, panel>>

\* the analyze call of run i rejects: catch, alert(detail), setLoading(false)
AnalyzeRejects(i) ==
  /\ runs[i].stage = "analyzing"
  /\ \E err \in Errors :
       /\ runs' = [runs EXCEPT ![i] = AfterAnalyzeFailed(@, err)]
       /\ alertMsg' = ErrorDetail(err)
  /\ loading' = FALSE
  /\ UNCHANGED <<location, file, storage, writes, analysis, resultsPc, clicks,
                 lastClick, loads, redirects, panel>>

(***************************************************************************)
(* ResultsPage.                                                            *)
(***************************************************************************)
\* localStorage.getItem("analysis")
GetItem == storage

\* variant: the effect does not test what getItem returned
HasData_Always(data) == TRUE

\* if (data) in the effect
HasData(data) == Truthy(data)

\* the useEffect of ResultsPage
ResultsEffect ==
  /\ location = "/results"
  /\ resultsPc = "effect"
  /\ IF HasData(GetItem)
       THEN LET parsed == JSONparse(GetItem)
            IN  IF parsed.t = "throw"
                  THEN /\ resultsPc' = "crashed"
                       /\ UNCHANGED <<analysis, location, file, loading, redirects>>
                  ELSE /\ analysis' = parsed
                       /\ resultsPc' = "settled"
                       /\ UNCHANGED <<location, file, loading, redirects>>
       ELSE /\ location' = "/"
            /\ resultsPc' = "unmounted"
            /\ file' = JNull
            /\ loading' = FALSE
            /\ redirects' = redirects + 1
            /\ UNCHANGED analysis
  /\ UNCHANGED <<runs, alertMsg, storage, writes, clicks, lastClick, loads, panel>>

\* a React child that is a plain object makes the render throw
ValidChild(v) == v.t # "object"

\* what ResultsPage renders for its state
RenderResults(a) ==
  IF ~Truthy(a) THEN [view |-> "loading"]
  ELSE LET riskScore == Coalesce(Get(Get(a, "risk"), "score"), JNum(0))
           survival == Coalesce(Get(a, "survival_score"), JNum(0))
       IN  IF ValidChild(riskScore) /\ ValidChild(survival)
             THEN [view |-> "dashboard", riskScore |-> riskScore,
                   survivalScore |-> survival]
             ELSE [view |-> "error"]

\* what the results route shows
ResultsView ==
  IF location # "/results" THEN [view |-> "none"]
  ELSE IF resultsPc = "crashed" THEN [view |-> "error"]
  ELSE RenderResults(analysis)

(***************************************************************************)
(* The routes: a page load starts the application afresh on a route.       *)
(***************************************************************************)
Routes == {"/", "/results"}

LoadPage(path) ==
  /\ loads < MaxLoads
  /\ loads' = loads + 1
  /\ location' = path
  /\ file' = JNull
  /\ loading' = FALSE
  /\ analysis' = JNull
  /\ resultsPc' = IF path = "/results" THEN "effect" ELSE "unmounted"
  /\ runs' = [i \in DOMAIN runs |->
                IF i \in InFlight THEN [runs[i] EXCEPT !.stage = "aborted"] ELSE runs[i]]
  /\ UNCHANGED <<alertMsg, storage, writes, clicks, lastClick, redirects, panel>>

Next ==
  \/ SelectFile
  \/ ClickAnalyze
  \/ \E i \in DOMAIN runs : UploadResolves(i)
  \/ \E i \in DOMAIN runs : UploadRejects(i)
  \/ \E i \in DOMAIN runs : AnalyzeResolves(i)
  \/ \E i \in DOMAIN runs : AnalyzeRejects(i)
  \/ ResultsEffect
  \/ \E path \in Routes : LoadPage(path)

Spec == Init /\ [][Next]_vars

(***************************************************************************)
(* Properties of the workflow.                                             *)
(***************************************************************************)
Done == {i \in DOMAIN runs : runs[i].stage = "done"}
Failed == {i \in DOMAIN runs : runs[i].stage = "failed"}

\* this step is a click on the button
IsClick == clicks' # clicks

\* in this step run i leaves its in-flight stage for `stage`
Becomes(i, stage) ==
  /\ runs[i].stage \in {"uploading", "analyzing"}
  /\ runs'[i].stage = stage

AlreadyInProgressError == JStr("AlreadyInProgressError")

C2_AnalyzeAfterUpload ==
  \A i \in DOMAIN runs :
    /\ runs[i].analyze # "none" => runs[i].upload = "ok"
    /\ runs[i].stage = "analyzing" => runs[i].upload = "ok"
    /\ runs[i].upload \in {"pending", "failed"} => runs[i].data = JUndef

C2_Witness ==
  /\ \E i \in DOMAIN runs : runs[i].upload = "failed" /\ runs[i].analyze = "none"
  /\ \E i \in DOMAIN runs : runs[i].upload = "ok" /\ runs[i].analyze = "pending"

\* C3: a submit with no file selected (while nothing is in flight) fails at
\* once with the validation message: loading stays false, no run is started,
\* no call is issued and the store is not written.
C3_NoFileRejected ==
  [][(IsClick /\ ~loading /\ file \in {JNull, JUndef}) =>
       /\ lastClick' = "noFile"
       /\ alertMsg' = JStr("Please select a file.")
       /\ loading' = FALSE
       /\ UNCHANGED <<runs, storage, writes, location>>]_vars

C3_Witness ==
  /\ lastClick = "noFile"
  /\ file = JUndef
  /\ alertMsg = JStr("Please select a file.")
  /\ runs = <<>>
  /\ ~loading
  /\ storage = Absent

\* the server-supplied string of an error: the answer's detail, else its message
ServerString(err) ==
  LET data == Get(Get(err, "response"), "data")
  IN  IF Get(data, "detail").t = "string" /\ Get(data, "detail").s # ""
        THEN Get(data, "detail")
        ELSE IF Get(data, "message").t = "string" /\ Get(data, "message").s # ""
          THEN Get(data, "message")
          ELSE JUndef

GenericFallback == JStr("Upload or analysis failed.")

C5_WrittenOnlyOnSuccess ==
  /\ [](writes = Cardinality(Done))
  /\ [][(storage' # storage \/ writes' # writes) =>
          /\ writes' = writes + 1
          /\ \E i \in DOMAIN runs :
               /\ runs[i].stage = "analyzing"
               /\ runs'[i].stage = "done"
               /\ runs'[i].analyze = "ok"]_vars
  /\ [][storage # Absent => storage' # Absent]_vars
  /\ [](storage = Absent <=> Done = {})

C5_Witness ==
  /\ Cardinality(Done) = 1
  /\ Cardinality(Failed) = 1
  /\ runs[1].stage = "done"
  /\ runs[2].stage = "failed"
  /\ lastClick = "noFile"
  /\ storage # Absent
  /\ writes = 1

\* SnapshotStore.latest()
Latest == IF storage = Absent THEN Absent ELSE JSONparse(storage)

LastDone == CHOOSE i \in Done : \A j \in Done : j <= i

C7_AbsentRedirects ==
  /\ [](Done = {} => storage = Absent)
  /\ [](storage = Absent =>
          /\ ResultsView.view \in {"none", "loading"}
          /\ resultsPc \in {"unmounted", "effect"}
          /\ analysis = JNull)
  /\ [][(storage = Absent /\ resultsPc = "effect" /\ loads' = loads /\ resultsPc' # "effect") =>
          /\ location' = "/"
          /\ redirects' = redirects + 1]_vars

C7_Witness ==
  /\ storage = Absent
  /\ redirects = 1
  /\ location = "/"
  /\ resultsPc = "unmounted"

\* a numeric score field of a normalized snapshot: a finite number
IsScore(v) == v.t = "number" /\ v.k = "fin"

\* C8 as stated, read on what the results view consumes: whatever the
\* analyze call returned, rendering does not fail and every numeric score the
\* dashboard shows is a number (0 when the payload had none or a non-number).
C8_ViewNormalized ==
  /\ ResultsView.view # "error"
  /\ ResultsView.view = "dashboard" =>
       /\ IsScore(ResultsView.riskScore)
       /\ IsScore(ResultsView.survivalScore)

(***************************************************************************)
(* The gauges and cards: score -> colour / label.                          *)
(***************************************************************************)
\* the scores handed to a panel: finite numbers, and what a loosely typed
\* payload can put in their place
FiniteScores == {JNum(n) : n \in 0 .. MaxScore} \cup {JNum(0 - 1), JNum(10000)}
OtherScores == {JNaN, JPosInf, JNegInf, JUndef, JNull, JStr("abc"), JStr("800")}
Scores == FiniteScores \cup OtherScores

\* RiskGauge: data[0].fill
RiskFill(score) ==
  IF GE(score, 750) THEN "#28a745"
  ELSE IF GE(score, 600) THEN "#fd7e14"
  ELSE "#dc3545"

\* variant: the top bound is exclusive
RiskColor_Exclusive(score) ==
  IF ~GE(score, 750) THEN (IF GE(score, 600) THEN "#fd7e14" ELSE "#dc3545")
  ELSE IF GE(score, 751) THEN "#28a745"
  ELSE "#fd7e14"

\* RiskGauge: the colour of the <h2>
RiskColor(score) ==
  IF GE(score, 750) THEN "#28a745"
  ELSE IF GE(score, 600) THEN "#fd7e14"
  ELSE "#dc3545"

\* InvestorGauge: data[0].fill
InvestorFill(score) ==
  IF GE(score, 80) THEN "#28a745"
  ELSE IF GE(score, 60) THEN "#007bff"
  ELSE IF GE(score, 40) THEN "#fd7e14"
  ELSE "#dc3545"

\* InvestorGauge: the colour of the <h2>
InvestorColor(score) ==
  IF GE(score, 80) THEN "#28a745"
  ELSE IF GE(score, 60) THEN "#007bff"
  ELSE IF GE(score, 40) THEN "#fd7e14"
  ELSE "#dc3545"

\* ESGCard: getColor()
ESGGetColor(score) ==
  IF GE(score, 80) THEN "#22c55e"
  ELSE IF GE(score, 65) THEN "#3b82f6"
  ELSE IF GE(score, 50) THEN "#f59e0b"
  ELSE "#ef4444"

\* SurvivalGauge: data[0].fill
SurvivalFill(score) ==
  IF GE(score, 70) THEN "#28a745"
  ELSE IF GE(score, 50) THEN "#fd7e14"
  ELSE "#dc3545"

\* SurvivalGauge: the colour of the <h2>
SurvivalColor(score) ==
  IF GE(score, 70) THEN "#28a745"
  ELSE IF GE(score, 50) THEN "#fd7e14"
  ELSE "#dc3545"

\* SurvivalGauge: the text of the <p>
SurvivalLabel(score) ==
  IF GE(score, 70) THEN "Stable"
  ELSE IF GE(score, 50) THEN "Watch Closely"
  ELSE "High Risk"

\* the panels are functions of their props: the score is drawn once, in
\* PanelInit, and each component renders it
RenderRiskGauge ==
  /\ panel.kind = "props"
  /\ panel' = [kind |-> "risk", score |-> panel.score, fill |-> RiskFill(panel.score),
               color |-> RiskColor(panel.score), label |-> ""]
  /\ UNCHANGED wfVars

RenderInvestorGauge ==
  /\ panel.kind = "props"
  /\ panel' = [kind |-> "investor", score |-> panel.score,
               fill |-> InvestorFill(panel.score),
               color |-> InvestorColor(panel.score), label |-> ""]
  /\ UNCHANGED wfVars

\* ESGCard({ esg }): nothing is rendered for a missing esg object
RenderESGCard ==
  /\ panel.kind = "props"
  /\ \E esg \in {JNull, JObj([score |-> panel.score])} :
       panel' = IF ~Truthy(esg)
                  THEN [kind |-> "esg-empty"]
                  ELSE [kind |-> "esg", score |-> Get(esg, "score"),
                        fill |-> ESGGetColor(Get(esg, "score")),
                        color |-> ESGGetColor(Get(esg, "score")), label |-> ""]
  /\ UNCHANGED wfVars

RenderSurvivalGauge ==
  /\ panel.kind = "props"
  /\ panel' = [kind |-> "survival", score |-> panel.score,
               fill |-> SurvivalFill(panel.score),
               color |-> SurvivalColor(panel.score),
               label |-> SurvivalLabel(panel.score)]
  /\ UNCHANGED wfVars

\* severity values an entry can carry: the enum, and what a loosely typed
\* payload can put in its place (undefined stands for a missing severity)
Severities ==
  {JStr("Critical"), JStr("High"), JStr("Medium"), JStr("Low"),
   JStr("critical"), JStr("Severe"), JStr(""), JUndef, JNull, JNum(3)}

\* an entry of warnings / fraudFlags with the given severity
AlertEntry(severity) ==
  IF severity = JUndef
    THEN JObj([type |-> JStr("Liquidity")])
    ELSE JObj([type |-> JStr("Liquidity"), severity |-> severity])

\* the lists handed to WarningPanel / FraudPanel, and a missing list
AlertLists ==
  {JUndef, JNull} \cup
  {JArr(a) : a \in UNION {[1 .. n -> {AlertEntry(x) : x \in Severities}] : n \in 0 .. MaxAlerts}}

\* severity === "..." against a string literal
StrictEq(v, literal) == v = JStr(literal)

\* WarningPanel: getSeverityColor
WarningSeverityColor(severity) ==
  IF StrictEq(severity, "Critical") THEN "#ef4444"
  ELSE IF StrictEq(severity, "High") THEN "#dc2626"
  ELSE IF StrictEq(severity, "Medium") THEN "#f59e0b"
  ELSE "#3b82f6"

\* variant: High is not told apart from Critical
FraudSeverityColor_HighAsCritical(severity) ==
  IF StrictEq(severity, "Critical") \/ StrictEq(severity, "High") THEN "#ef4444"
  ELSE IF StrictEq(severity, "Medium") THEN "#f59e0b"
  ELSE "#3b82f6"

\* FraudPanel: getSeverityColor
FraudSeverityColor(severity) ==
  IF StrictEq(severity, "Critical") THEN "#ef4444"
  ELSE IF StrictEq(severity, "High") THEN "#dc2626"
  ELSE IF StrictEq(severity, "Medium") THEN "#f59e0b"
  ELSE "#3b82f6"

\* if (!list || list.length === 0): the "nothing to report" card
NoAlerts(list) == ~Truthy(list) \/ Len(list.a) = 0

\* WarningPanel({ warnings }): per entry the border and the badge colour
RenderWarningPanel ==
  /\ panel.kind = "alerts"
  /\ panel' =
       IF NoAlerts(panel.list)
         THEN [kind |-> "warnings", list |-> panel.list, allClear |-> TRUE,
               border |-> <<>>, badge |-> <<>>]
         ELSE [kind |-> "warnings", list |-> panel.list, allClear |-> FALSE,
               border |-> [i \in DOMAIN panel.list.a |->
                            WarningSeverityColor(Get(panel.list.a[i], "severity"))],
               badge |-> [i \in DOMAIN panel.list.a |->
                           WarningSeverityColor(Get(panel.list.a[i], "severity"))]]
  /\ UNCHANGED wfVars

\* FraudPanel({ fraud }): per entry the border and the badge colour
RenderFraudPanel ==
  /\ panel.kind = "alerts"
  /\ panel' =
       IF NoAlerts(panel.list)
         THEN [kind |-> "fraud", list |-> panel.list, allClear |-> TRUE,
               border |-> <<>>, badge |-> <<>>]
         ELSE [kind |-> "fraud", list |-> panel.list, allClear |-> FALSE,
               border |-> [i \in DOMAIN panel.list.a |->
                            FraudSeverityColor(Get(panel.list.a[i], "severity"))],
               badge |-> [i \in DOMAIN panel.list.a |->
                           FraudSeverityColor(Get(panel.list.a[i], "severity"))]]
  /\ UNCHANGED wfVars

\* the workflow at rest, and a score or a list for the panels
PanelInit ==
  /\ location = "/"
  /\ file = JNull
  /\ loading = FALSE
  /\ runs = <<>>
  /\ alertMsg = JUndef
  /\ storage = Absent
  /\ writes = 0
  /\ analysis = JNull
  /\ resultsPc = "unmounted"
  /\ clicks = 0
  /\ lastClick = "none"
  /\ loads = 0
  /\ redirects = 0
  /\ \/ \E score \in Scores : panel = [kind |-> "props", score |-> score]
     \/ \E list \in AlertLists : panel = [kind |-> "alerts", list |-> list]

PanelNext ==
  \/ RenderRiskGauge
  \/ RenderInvestorGauge
  \/ RenderESGCard
  \/ RenderSurvivalGauge
  \/ RenderWarningPanel
  \/ RenderFraudPanel

PanelSpec == PanelInit /\ [][PanelNext]_vars

(***************************************************************************)
(* Properties of the classification.                                       *)
(***************************************************************************)
MetricKinds == {"risk", "investor", "esg", "survival"}

\* the rules of a metric kind, highest bound first; the last one has no bound
Rules(kind) ==
  CASE kind = "risk" ->
         <<[min |-> 750, color |-> "#28a745", label |-> ""],
           [min |-> 600, color |-> "#fd7e14", label |-> ""],
           [min |-> 0 - 1000000, color |-> "#dc3545", label |-> ""]>>
    [] kind = "investor" ->
         <<[min |-> 80, color |-> "#28a745", label |-> ""],
           [min |-> 60, color |-> "#007bff", label |-> ""],
           [min |-> 40, color |-> "#fd7e14", label |-> ""],
           [min |-> 0 - 1000000, color |-> "#dc3545", label |-> ""]>>
    [] kind = "esg" ->
         <<[min |-> 80, color |-> "#22c55e", label |-> ""],
           [min |-> 65, color |-> "#3b82f6", label |-> ""],
           [min |-> 50, color |-> "#f59e0b", label |-> ""],
           [min |-> 0 - 1000000, color |-> "#ef4444", label |-> ""]>>
    [] kind = "survival" ->
         <<[min |-> 70, color |-> "#28a745", label |-> "Stable"],
           [min |-> 50, color |-> "#fd7e14", label |-> "Watch Closely"],
           [min |-> 0 - 1000000, color |-> "#dc3545", label |-> "High Risk"]>>

\* the rules of `kind` a finite number n satisfies
Matching(kind, n) == {j \in DOMAIN Rules(kind) : Rules(kind)[j].min <= n}

\* the first rule, in registered order, whose inclusive lower bound is <= n
FirstRule(kind, n) ==
  Rules(kind)[CHOOSE j \in Matching(kind, n) : \A k \in Matching(kind, n) : j <= k]

LowestRule(kind) == Rules(kind)[Len(Rules(kind))]

\* C9: for a finite numeric score, every place of a panel that colours or
\* labels the score shows the tier of the first rule, in descending order of
\* bound, whose inclusive lower bound is <= the score.
C9_FirstMatchingTier ==
  (panel.kind \in MetricKinds /\ IsScore(panel.score)) =>
    /\ Matching(panel.kind, panel.score.n) # {}
    /\ panel.fill = FirstRule(panel.kind, panel.score.n).color
    /\ panel.color = FirstRule(panel.kind, panel.score.n).color
    /\ panel.label = FirstRule(panel.kind, panel.score.n).label

C9_Witness ==
  /\ panel.kind = "risk"
  /\ panel.score = JNum(750)
  /\ panel.fill = "#28a745"
  /\ panel.color = "#28a745"
  /\ RiskColor(JNum(10000)) = panel.color
  /\ RiskColor(JNum(749)) # panel.color

\* the values C10 is about: NaN, the infinities, undefined, null, and a
\* string that does not read as a number
NotFiniteNumber(v) ==
  /\ ~IsScore(v)
  /\ ~(v.t = "string" /\ v.s \in DOMAIN NumericStrings)

\* C10 as stated: a score that is not a finite number (NaN, an infinity,
\* undefined, null, a non-numeric string) is classified in the lowest tier of
\* its kind.
C10_NonFiniteIsLowest ==
  (panel.kind \in MetricKinds /\ NotFiniteNumber(panel.score)) =>
    /\ panel.fill = LowestRule(panel.kind).color
    /\ panel.color = LowestRule(panel.kind).color
    /\ panel.label = LowestRule(panel.kind).label

\* the colour the severity enum assigns: one per recognised member, and the
\* default for Low and for everything else
SeverityTag(v) ==
  CASE v = JStr("Critical") -> "#ef4444"
    [] v = JStr("High") -> "#dc2626"
    [] v = JStr("Medium") -> "#f59e0b"
    [] OTHER -> "#3b82f6"

\* C11: in the warnings panel and in the fraud panel alike, every entry's
\* border and badge carry the colour of its severity by exact match:
\* Critical, High and Medium each their own, Low and every unrecognised or
\* missing severity the default blue; an empty or missing list gives the
\* "nothing to report" card.
C11_SeverityByExactMatch ==
  panel.kind \in {"warnings", "fraud"} =>
    IF panel.list \in {JUndef, JNull} \/ panel.list.a = <<>>
      THEN panel.allClear /\ panel.border = <<>> /\ panel.badge = <<>>
      ELSE /\ ~panel.allClear
           /\ DOMAIN panel.border = DOMAIN panel.list.a
           /\ DOMAIN panel.badge = DOMAIN panel.list.a
           /\ \A i \in DOMAIN panel.list.a :
                /\ panel.border[i] = SeverityTag(Get(panel.list.a[i], "severity"))
                /\ panel.badge[i] = SeverityTag(Get(panel.list.a[i], "severity"))

C11_Witness ==
  /\ panel.kind = "warnings"
  /\ panel.list = JArr(<<AlertEntry(JStr("Critical")), AlertEntry(JUndef)>>)
  /\ panel.border = <<"#ef4444", "#3b82f6">>
  /\ panel.badge = panel.border

\* C12 as stated: once a run has ended in Success and the results view has
\* read the store, whatever body the 2xx answer carried, the view has not
\* failed reading the store, has not redirected to the upload view, and is
\* no longer in its Loading state.
C12_ResultsLeaveLoading ==
  /\ resultsPc # "crashed"
  /\ (Done # {} /\ loads = 0) => redirects = 0
  /\ (Done # {} /\ location = "/results" /\ resultsPc = "settled") =>
       ResultsView.view # "loading"

====
